---- MODULE Spec2Model ----
(***************************************************************************)
(* Model of chain's cos/bc block and block header: the canonical binary    *)
(* encoding (Full and ForSigning), the decoding through a sticky-error     *)
(* reader, the database Scan/Value hooks, the two header hashes and the    *)
(* commitment slot accessors (src/cos/bc/block.go).                        *)
(*                                                                         *)
(* A byte is a number in 0..255, a byte string a sequence of bytes (Go's   *)
(* nil and empty slices are both <<>>).  Unsigned integers are naturals;   *)
(* the values used stay below 2^31.                                        *)
(***************************************************************************)
EXTENDS Integers, Sequences, FiniteSets, TLC

VARIABLES
    b,      \* the Block the methods are called on (header fields + Transactions)
    pre,    \* b as it was before the last operation
    op,     \* name of the last operation
    val,    \* the driver value in storage: what Value returned, what Scan receives
    src,    \* the block whose encoding val holds (possibly cut short since)
    err,    \* the error returned by the last operation
    ret,    \* the value returned by the last operation (bytes or a Hash)
    calls   \* the digest last given to each commitment setter, if any

vars == <<b, pre, op, val, src, err, ret, calls>>

-----------------------------------------------------------------------------
(* Bounds of the model *)

\* longest SignatureScript / OutputScript built by the producer
MaxScript == 1
\* most transactions in a block built by the producer
MaxTxs == 2
\* longest Commitment a header starts with in the commitment specification
MaxCommitment == 66

(* Program constants *)

\* size of a Hash, and of one commitment slot
HashSize == 32
\* end of the second commitment slot
CommitmentSize == 64

-----------------------------------------------------------------------------
(* Byte strings *)

Byte == 0 .. 255

Take(s, n) == SubSeq(s, 1, n)
Drop(s, n) == SubSeq(s, n + 1, Len(s))

Zeros(n) == [i \in 1 .. n |-> 0]

\* a recognisable non-zero byte string of length n, seeded by k
Pattern(k, n) == [i \in 1 .. n |-> ((k * 16 + i - 1) % 255) + 1]

IsPrefix(p, s) == Len(p) <= Len(s) /\ p = Take(s, Len(p))
IsProperPrefix(p, s) == Len(p) < Len(s) /\ p = Take(s, Len(p))

RECURSIVE Concat(_)
Concat(ss) == IF ss = <<>> THEN <<>> ELSE Head(ss) \o Concat(Tail(ss))

-----------------------------------------------------------------------------
(* Primitive codec: chain/encoding/blockchain *)

\* fixed-width little-endian encoding of x in n bytes
RECURSIVE LittleEndian(_, _)
LittleEndian(x, n) ==
    IF n = 0 THEN <<>> ELSE <<x % 256>> \o LittleEndian(x \div 256, n - 1)

\* the value of little-endian bytes
RECURSIVE FromLittleEndian(_)
FromLittleEndian(s) ==
    IF s = <<>> THEN 0 ELSE Head(s) + 256 * FromLittleEndian(Tail(s))

WriteUint32(x) == LittleEndian(x, 4)
WriteUint64(x) == LittleEndian(x, 8)

\* variable-length unsigned integer: 7 bits per byte, low group first,
\* high bit set on every byte but the last
RECURSIVE WriteUvarint(_)
WriteUvarint(x) ==
    IF x < 128 THEN <<x>> ELSE <<128 + (x % 128)>> \o WriteUvarint(x \div 128)

WriteBytes(data) == WriteUvarint(Len(data)) \o data

-----------------------------------------------------------------------------
(* errors.Reader over bytes.Reader: the first error sticks, and every read *)
(* after it reads nothing.                                                 *)

NoErr == "nil"
EOF == "EOF"
ErrMalformed == "malformed uvarint"
ErrNotBytes == "Scan must receive a byte slice"

NewReader(buf) == [buf |-> buf, Err |-> NoErr]

\* io.ReadFull(r, p) with len(p) = n: the bytes that arrive, and the reader after
ReadFull(r, n) ==
    IF r.Err # NoErr \/ n = 0 THEN [bytes |-> <<>>, r |-> r]
    ELSE IF Len(r.buf) >= n
        THEN [bytes |-> Take(r.buf, n), r |-> [r EXCEPT !.buf = Drop(r.buf, n)]]
        ELSE [bytes |-> r.buf, r |-> [buf |-> <<>>, Err |-> EOF]]

\* a fixed-width read fills a zeroed array: missing bytes stay zero
ReadFixed(r, n) ==
    LET rd == ReadFull(r, n)
    IN  [v |-> FromLittleEndian(rd.bytes), r |-> rd.r]

ReadUint32(r) == ReadFixed(r, 4)
ReadUint64(r) == ReadFixed(r, 8)

\* the uvarint at the head of the reader: 0 once an error has occurred
RECURSIVE UvarintFrom(_, _, _)
UvarintFrom(r, acc, mul) ==
    LET rd == ReadFull(r, 1)
    IN  IF rd.r.Err # NoErr THEN [v |-> 0, r |-> rd.r]
        ELSE LET c == rd.bytes[1]
             IN  IF c >= 128 THEN UvarintFrom(rd.r, acc + (c - 128) * mul, mul * 128)
                 ELSE IF c = 0 /\ mul > 1
                     THEN [v |-> 0, r |-> [rd.r EXCEPT !.Err = ErrMalformed]]
                     ELSE [v |-> acc + c * mul, r |-> rd.r]

ReadUvarint(r) == UvarintFrom(r, 0, 1)

\* a new slice of the length read, filled with the bytes that arrive
FillSlice(n, rd) == [v |-> rd.bytes \o Zeros(n - Len(rd.bytes)), r |-> rd.r]
ReadSlice(n) == FillSlice(n.v, ReadFull(n.r, n.v))

\* length, then a new slice of that length filled from the reader
ReadBytes(r) == ReadSlice(ReadUvarint(r))

-----------------------------------------------------------------------------
(* hash256: a 32-byte digest that is a function of the bytes written to it *)

\* the sum of k * s[k] for k in lo .. hi, modulo 65536
RECURSIVE WeightedSum(_, _, _)
WeightedSum(s, lo, hi) ==
    IF lo > hi THEN 0
    ELSE IF lo = hi THEN (lo * s[lo]) % 65536
    ELSE LET mid == (lo + hi) \div 2
         IN  (WeightedSum(s, lo, mid) + WeightedSum(s, mid + 1, hi)) % 65536

Hash256(s) ==
    LET s1 == Len(s)
        s2 == WeightedSum(s, 1, Len(s))
    IN  [i \in 1 .. HashSize |-> (s1 + i * s2) % 256]

ZeroHash == Zeros(HashSize)

-----------------------------------------------------------------------------
(* Transactions: the payload TxData and its wrapper Tx                      *)

\* the canonical encoding of a transaction payload
TxData_writeTo(data) == WriteUint32(data.Version) \o WriteBytes(data.Metadata)

\* the payload at the head of the reader
TxData_setMetadata(data, m) == [data |-> [data EXCEPT !.Metadata = m.v], r |-> m.r]
TxData_setVersion(v) ==
    TxData_setMetadata([Version |-> v.v, Metadata |-> <<>>], ReadBytes(v.r))
TxData_readFrom(r) == TxData_setVersion(ReadUint32(r))

\* NewTx computes the hash of the payload once and keeps it beside the payload
NewTx(data) == [TxData |-> data, Hash |-> Hash256(TxData_writeTo(data))]

Tx_WriteTo(tx) == TxData_writeTo(tx.TxData)

-----------------------------------------------------------------------------
(* Block and BlockHeader.  A Block embeds its BlockHeader: one record holds *)
(* the header's fields and Transactions.                                    *)

HeaderFields ==
    {"Version", "Height", "PreviousBlockHash", "Commitment", "Timestamp",
     "SignatureScript", "OutputScript"}

\* the BlockHeader embedded in blk
BlockHeader(blk) == [f \in HeaderFields |-> blk[f]]

\* the zero value of Block: what new(Block) or var b Block gives
ZeroBlock ==
    [Version |-> 0, Height |-> 0, PreviousBlockHash |-> ZeroHash,
     Commitment |-> <<>>, Timestamp |-> 0, SignatureScript |-> <<>>,
     OutputScript |-> <<>>, Transactions |-> <<>>]

\* BlockHeader.writeTo with the two scripts written in the other order
BlockHeader_writeTo_swapScripts(bh, forSigning) ==
    WriteUint32(bh.Version)
        \o WriteUint64(bh.Height)
        \o bh.PreviousBlockHash
        \o WriteBytes(bh.Commitment)
        \o WriteUint64(bh.Timestamp)
        \o WriteBytes(bh.OutputScript)
        \o (IF forSigning THEN WriteBytes(<<>>) ELSE WriteBytes(bh.SignatureScript))

\* BlockHeader.writeTo that writes the signature script whatever forSigning is
BlockHeader_writeTo_signsAll(bh, forSigning) ==
    WriteUint32(bh.Version)
        \o WriteUint64(bh.Height)
        \o bh.PreviousBlockHash
        \o WriteBytes(bh.Commitment)
        \o WriteUint64(bh.Timestamp)
        \o WriteBytes(bh.SignatureScript)
        \o WriteBytes(bh.OutputScript)

\* BlockHeader.writeTo that writes nothing for the signature when signing
BlockHeader_writeTo_omitSig(bh, forSigning) ==
    WriteUint32(bh.Version)
        \o WriteUint64(bh.Height)
        \o bh.PreviousBlockHash
        \o WriteBytes(bh.Commitment)
        \o WriteUint64(bh.Timestamp)
        \o (IF forSigning THEN <<>> ELSE WriteBytes(bh.SignatureScript))
        \o WriteBytes(bh.OutputScript)

\* BlockHeader.writeTo: the bytes written for bh
BlockHeader_writeTo(bh, forSigning) ==
    WriteUint32(bh.Version)
        \o WriteUint64(bh.Height)
        \o bh.PreviousBlockHash
        \o WriteBytes(bh.Commitment)
        \o WriteUint64(bh.Timestamp)
        \o (IF forSigning THEN WriteBytes(<<>>) ELSE WriteBytes(bh.SignatureScript))
        \o WriteBytes(bh.OutputScript)

\* the transactions of a list, encoded one after the other
TxListBytes(txs) == Concat([i \in 1 .. Len(txs) |-> Tx_WriteTo(txs[i])])

\* Block.writeTo that writes the transactions whatever forSigning is
Block_writeTo_alwaysTxs(blk, forSigning) ==
    BlockHeader_writeTo(blk, forSigning)
        \o WriteUvarint(Len(blk.Transactions))
        \o TxListBytes(blk.Transactions)

\* Block.writeTo: the bytes written for blk
Block_writeTo(blk, forSigning) ==
    BlockHeader_writeTo(blk, forSigning)
        \o (IF forSigning THEN <<>>
            ELSE WriteUvarint(Len(blk.Transactions))
                    \o TxListBytes(blk.Transactions))

\* one assignment of BlockHeader.readFrom: the field takes what the read
\* returned, whatever the reader's error
Assign(bh, field, x) == [bh |-> [bh EXCEPT ![field] = x.v], r |-> x.r]
\* io.ReadFull(r, bh.PreviousBlockHash[:]) fills the array in place
Fill(bh, field, rd) ==
    [bh |-> [bh EXCEPT ![field] = rd.bytes \o Drop(@, Len(rd.bytes))], r |-> rd.r]

readVersion(s) == Assign(s.bh, "Version", ReadUint32(s.r))
readHeight(s) == Assign(s.bh, "Height", ReadUint64(s.r))
readPreviousBlockHash(s) == Fill(s.bh, "PreviousBlockHash", ReadFull(s.r, HashSize))
readCommitment(s) == Assign(s.bh, "Commitment", ReadBytes(s.r))
readTimestamp(s) == Assign(s.bh, "Timestamp", ReadUint64(s.r))
readSignatureScript(s) == Assign(s.bh, "SignatureScript", ReadBytes(s.r))
readOutputScript(s) == Assign(s.bh, "OutputScript", ReadBytes(s.r))

\* BlockHeader.readFrom: the header and the reader after the seven reads
BlockHeader_readFrom(bh, r) ==
    readOutputScript(readSignatureScript(readTimestamp(readCommitment(
        readPreviousBlockHash(readHeight(readVersion([bh |-> bh, r |-> r])))))))

\* the loop of Block.readFrom: n more payloads are read, wrapped by NewTx and
\* appended, whatever the reader's error
RECURSIVE ReadTransactions(_, _, _)
AppendTx(blk, data, n) ==
    ReadTransactions([blk EXCEPT !.Transactions = Append(@, NewTx(data.data))],
                     data.r, n - 1)
ReadTransactions(blk, r, n) ==
    IF n = 0 THEN [blk |-> blk, r |-> r]
    ELSE AppendTx(blk, TxData_readFrom(r), n)

readCount(bh, n) == ReadTransactions(bh, n.r, n.v)
readBody(s) == readCount(s.bh, ReadUvarint(s.r))

\* Block.readFrom: the header, the count, then count transactions
Block_readFrom(blk, r) == readBody(BlockHeader_readFrom(blk, r))

\* a Hash method of Block that digests the block's Full encoding
Hash_ofBlock(bh) == Hash256(Block_writeTo(bh, FALSE))

\* BlockHeader.Hash and BlockHeader.HashForSig
Hash(bh) == Hash256(BlockHeader_writeTo(bh, FALSE))
HashForSig(bh) == Hash256(BlockHeader_writeTo(bh, TRUE))

-----------------------------------------------------------------------------
(* Commitment accessors *)

TxRoot(bh) ==
    IF Len(bh.Commitment) >= HashSize THEN Take(bh.Commitment, HashSize)
    ELSE ZeroHash

\* SetTxRoot that always makes a new 32-byte commitment
SetTxRoot_alwaysNew(bh, h) == [bh EXCEPT !.Commitment = h]

\* the Commitment after SetTxRoot(h)
SetTxRoot(bh, h) ==
    LET c == IF Len(bh.Commitment) < HashSize THEN Zeros(HashSize)
             ELSE bh.Commitment
    IN  [bh EXCEPT !.Commitment = h \o Drop(c, HashSize)]

StateRoot(bh) ==
    IF Len(bh.Commitment) >= CommitmentSize
        THEN SubSeq(bh.Commitment, HashSize + 1, CommitmentSize)
    ELSE ZeroHash

\* SetStateRoot that copies the digest to the start of the commitment
SetStateRoot_wrongOffset(bh, h) ==
    LET c == IF Len(bh.Commitment) < CommitmentSize
                 THEN bh.Commitment \o Zeros(CommitmentSize - Len(bh.Commitment))
             ELSE bh.Commitment
    IN  [bh EXCEPT !.Commitment = h \o Drop(c, HashSize)]

\* SetStateRoot that grows the commitment without copying the old bytes
SetStateRoot_noCopy(bh, h) ==
    LET c == IF Len(bh.Commitment) < CommitmentSize THEN Zeros(CommitmentSize)
             ELSE bh.Commitment
    IN  [bh EXCEPT !.Commitment =
            Take(c, HashSize) \o h \o Drop(c, CommitmentSize)]

\* the Commitment after SetStateRoot(h)
SetStateRoot(bh, h) ==
    LET c == IF Len(bh.Commitment) < CommitmentSize
                 THEN bh.Commitment \o Zeros(CommitmentSize - Len(bh.Commitment))
             ELSE bh.Commitment
    IN  [bh EXCEPT !.Commitment =
            Take(c, HashSize) \o h \o Drop(c, CommitmentSize)]

-----------------------------------------------------------------------------
(* The values a producer builds *)

\* a signature script and an output script of length n
SigScript(n) == Pattern(3, n)
OutScript(n) == [i \in 1 .. n |-> 169 + i]

\* the genesis header of the specification's scenario
GenesisBlock ==
    [ZeroBlock EXCEPT !.Version = 1, !.Commitment = Zeros(CommitmentSize),
                      !.Timestamp = 1000, !.OutputScript = OutScript(1)]

\* a header with multi-byte integers and a commitment whose length takes
\* two uvarint bytes
WideBlock ==
    [Version |-> 258, Height |-> 70000, PreviousBlockHash |-> Pattern(1, HashSize),
     Commitment |-> Pattern(2, 130), Timestamp |-> 2147483647,
     SignatureScript |-> <<>>, OutputScript |-> OutScript(2),
     Transactions |-> <<>>]

BaseBlocks == {ZeroBlock, GenesisBlock, WideBlock}

SigScripts == {SigScript(n) : n \in 0 .. MaxScript}

TxDatas ==
    {[Version |-> 1, Metadata |-> <<>>], [Version |-> 2, Metadata |-> <<5>>]}

Txs == {NewTx(d) : d \in TxDatas}

TxLists == UNION {[1 .. n -> Txs] : n \in 0 .. MaxTxs}

\* every block the producer may assemble
Blocks ==
    {[base EXCEPT !.SignatureScript = sig, !.Transactions = txs] :
        base \in BaseBlocks, sig \in SigScripts, txs \in TxLists}

Digests == {ZeroHash, Pattern(7, HashSize), Pattern(9, HashSize)}

-----------------------------------------------------------------------------
(* Driver values *)

NoValue == [kind |-> "none", bytes |-> <<>>]
BytesValue(bytes) == [kind |-> "bytes", bytes |-> bytes]
\* a driver value that is not a []byte (a string, an int64, nil)
OtherValue == [kind |-> "other", bytes |-> <<>>]

NoSource == [of |-> "none", blk |-> ZeroBlock]
NoCalls == [c0 |-> <<>>, tx |-> <<>>, st |-> <<>>]
NoRet == <<>>

\* Block.Scan that returns nil instead of the reader's error
Block_ScanResult_nilErr(blk, v) ==
    IF v.kind # "bytes" THEN [blk |-> blk, err |-> ErrNotBytes]
    ELSE [blk |-> Block_readFrom(blk, NewReader(v.bytes)).blk, err |-> NoErr]

\* Block.Scan that does not check what it is given
Block_ScanResult_noTypeCheck(blk, v) ==
    LET rd == Block_readFrom(blk, NewReader(v.bytes))
    IN  [blk |-> rd.blk, err |-> rd.r.Err]

\* the receiver and the error after Block.Scan(v) on blk
Block_ScanResult(blk, v) ==
    IF v.kind # "bytes" THEN [blk |-> blk, err |-> ErrNotBytes]
    ELSE LET rd == Block_readFrom(blk, NewReader(v.bytes))
         IN  [blk |-> rd.blk, err |-> rd.r.Err]

\* the receiver and the error after BlockHeader.Scan(v) on blk's header
BlockHeader_ScanResult(blk, v) ==
    IF v.kind # "bytes" THEN [blk |-> blk, err |-> ErrNotBytes]
    ELSE LET rd == BlockHeader_readFrom(blk, NewReader(v.bytes))
         IN  [blk |-> rd.bh, err |-> rd.r.Err]

-----------------------------------------------------------------------------
(* Production, storage and receipt of a block *)

Init ==
    /\ b = ZeroBlock
    /\ pre = ZeroBlock
    /\ op = "new"
    /\ val = NoValue
    /\ src = NoSource
    /\ err = NoErr
    /\ ret = NoRet
    /\ calls = NoCalls

Producing == val.kind = "none"
Received == op \in {"Block.Scan", "BlockHeader.Scan"} /\ err = NoErr

\* the producer assembles a block by assigning the fields of a new Block
Build(x) ==
    /\ Producing /\ op = "new"
    /\ b' = x /\ pre' = b /\ op' = "build"
    /\ err' = NoErr /\ ret' = NoRet
    /\ UNCHANGED <<val, src, calls>>

\* the producer writes the signature into the header
Sign(sig) ==
    /\ Producing
    /\ b' = [b EXCEPT !.SignatureScript = sig]
    /\ pre' = b /\ op' = "sign"
    /\ err' = NoErr /\ ret' = NoRet
    /\ UNCHANGED <<val, src, calls>>

BlockHeader_Hash ==
    /\ Producing \/ Received
    /\ ret' = Hash(b)
    /\ pre' = b /\ op' = "Hash" /\ err' = NoErr
    /\ UNCHANGED <<b, val, src, calls>>

BlockHeader_HashForSig ==
    /\ Producing \/ Received
    /\ ret' = HashForSig(b)
    /\ pre' = b /\ op' = "HashForSig" /\ err' = NoErr
    /\ UNCHANGED <<b, val, src, calls>>

BlockHeader_WriteForSigTo ==
    /\ Producing
    /\ ret' = BlockHeader_writeTo(b, TRUE)
    /\ pre' = b /\ op' = "BlockHeader.WriteForSigTo" /\ err' = NoErr
    /\ UNCHANGED <<b, val, src, calls>>

\* Block.writeTo(w, true)
Block_writeForSig ==
    /\ Producing
    /\ ret' = Block_writeTo(b, TRUE)
    /\ pre' = b /\ op' = "Block.writeTo(forSigning)" /\ err' = NoErr
    /\ UNCHANGED <<b, val, src, calls>>

Block_Value ==
    /\ Producing
    /\ val' = BytesValue(Block_writeTo(b, FALSE))
    /\ src' = [of |-> "block", blk |-> b]
    /\ ret' = Block_writeTo(b, FALSE)
    /\ pre' = b /\ op' = "Block.Value" /\ err' = NoErr
    /\ UNCHANGED <<b, calls>>

BlockHeader_Value ==
    /\ Producing
    /\ val' = BytesValue(BlockHeader_writeTo(b, FALSE))
    /\ src' = [of |-> "header", blk |-> b]
    /\ ret' = BlockHeader_writeTo(b, FALSE)
    /\ pre' = b /\ op' = "BlockHeader.Value" /\ err' = NoErr
    /\ UNCHANGED <<b, calls>>

\* the storage or the network loses the end of the value: k bytes arrive
Truncate(k) ==
    /\ op \in {"Block.Value", "BlockHeader.Value"}
    /\ k < Len(val.bytes)
    /\ val' = BytesValue(Take(val.bytes, k))
    /\ pre' = b /\ op' = "truncate" /\ err' = NoErr /\ ret' = NoRet
    /\ UNCHANGED <<b, src, calls>>

\* the driver hands over a value that is not a byte slice
StoreOther ==
    /\ op \in {"Block.Value", "BlockHeader.Value"}
    /\ val' = OtherValue
    /\ pre' = b /\ op' = "store other" /\ err' = NoErr /\ ret' = NoRet
    /\ UNCHANGED <<b, src, calls>>

\* the receiving side creates a fresh Block to scan into
New ==
    /\ op \in {"Block.Value", "BlockHeader.Value", "truncate", "store other"}
    /\ b' = ZeroBlock
    /\ pre' = b /\ op' = "new" /\ err' = NoErr /\ ret' = NoRet
    /\ UNCHANGED <<val, src, calls>>

CanScan ==
    /\ val.kind # "none"
    /\ err = NoErr
    /\ Len(b.Transactions) <= MaxTxs

Block_Scan ==
    /\ CanScan
    /\ LET res == Block_ScanResult(b, val)
       IN  b' = res.blk /\ err' = res.err
    /\ pre' = b /\ op' = "Block.Scan" /\ ret' = NoRet
    /\ UNCHANGED <<val, src, calls>>

BlockHeader_Scan ==
    /\ CanScan
    /\ LET res == BlockHeader_ScanResult(b, val)
       IN  b' = res.blk /\ err' = res.err
    /\ pre' = b /\ op' = "BlockHeader.Scan" /\ ret' = NoRet
    /\ UNCHANGED <<val, src, calls>>

Next ==
    \/ \E x \in Blocks : Build(x)
    \/ \E sig \in SigScripts : Sign(sig)
    \/ BlockHeader_Hash
    \/ BlockHeader_HashForSig
    \/ BlockHeader_WriteForSigTo
    \/ Block_writeForSig
    \/ Block_Value
    \/ BlockHeader_Value
    \/ \E k \in 0 .. Len(val.bytes) : Truncate(k)
    \/ StoreOther
    \/ New
    \/ Block_Scan
    \/ BlockHeader_Scan

Spec == Init /\ [][Next]_vars

-----------------------------------------------------------------------------
(* The commitment accessors on a header under construction *)

InitCommit ==
    /\ \E n \in 0 .. MaxCommitment :
          /\ b = [ZeroBlock EXCEPT !.Commitment = Pattern(5, n)]
          /\ calls = [c0 |-> Pattern(5, n), tx |-> <<>>, st |-> <<>>]
    /\ pre = b
    /\ op = "new"
    /\ val = NoValue
    /\ src = NoSource
    /\ err = NoErr
    /\ ret = NoRet

BlockHeader_SetTxRoot(h) ==
    /\ b' = SetTxRoot(b, h)
    /\ calls' = [calls EXCEPT !.tx = h]
    /\ pre' = b /\ op' = "SetTxRoot" /\ ret' = NoRet
    /\ UNCHANGED <<val, src, err>>

BlockHeader_SetStateRoot(h) ==
    /\ b' = SetStateRoot(b, h)
    /\ calls' = [calls EXCEPT !.st = h]
    /\ pre' = b /\ op' = "SetStateRoot" /\ ret' = NoRet
    /\ UNCHANGED <<val, src, err>>

BlockHeader_TxRoot ==
    /\ ret' = TxRoot(b)
    /\ pre' = b /\ op' = "TxRoot"
    /\ UNCHANGED <<b, val, src, err, calls>>

BlockHeader_StateRoot ==
    /\ ret' = StateRoot(b)
    /\ pre' = b /\ op' = "StateRoot"
    /\ UNCHANGED <<b, val, src, err, calls>>

NextCommit ==
    \/ \E h \in Digests : BlockHeader_SetTxRoot(h)
    \/ \E h \in Digests : BlockHeader_SetStateRoot(h)
    \/ BlockHeader_TxRoot
    \/ BlockHeader_StateRoot

SpecCommit == InitCommit /\ [][NextCommit]_vars

-----------------------------------------------------------------------------
(* Properties *)

Scanned == op \in {"Block.Scan", "BlockHeader.Scan"}
FullBlock == Block_writeTo(src.blk, FALSE)
FullHeader == BlockHeader_writeTo(src.blk, FALSE)
Max(x, y) == IF x >= y THEN x ELSE y

\* C1: a Full encoding of a block (of a header) scanned into a freshly
\* created Block (BlockHeader) gives no error and the value that was
\* encoded, field for field, transactions in the same order.
RoundTrip ==
    /\ (op = "Block.Scan" /\ pre = ZeroBlock /\ val = BytesValue(FullBlock))
          => (err = NoErr /\ b = src.blk)
    /\ (op = "BlockHeader.Scan" /\ pre = ZeroBlock /\ val = BytesValue(FullHeader))
          => (err = NoErr /\ BlockHeader(b) = BlockHeader(src.blk))

RoundTripWitness ==
    /\ op = "Block.Scan" /\ pre = ZeroBlock /\ val = BytesValue(FullBlock)
    /\ src.of = "block"
    /\ Len(src.blk.Commitment) > 127
    /\ src.blk.SignatureScript # <<>>
    /\ Len(src.blk.Transactions) = 2
    /\ src.blk.Transactions[1] # src.blk.Transactions[2]
    /\ b = src.blk

\* C2: headers that differ in SignatureScript only have the same ForSigning
\* encoding and the same HashForSig; writing the signature into a header
\* changes neither.
SigningHashIgnoresSignature ==
    /\ op = "sign" =>
          /\ BlockHeader_writeTo(b, TRUE) = BlockHeader_writeTo(pre, TRUE)
          /\ HashForSig(b) = HashForSig(pre)
    /\ op \in {"build", "HashForSig"} =>
          \A sig \in SigScripts :
              /\ BlockHeader_writeTo([b EXCEPT !.SignatureScript = sig], TRUE)
                    = BlockHeader_writeTo(b, TRUE)
              /\ HashForSig([b EXCEPT !.SignatureScript = sig]) = HashForSig(b)

SigningHashWitness ==
    /\ op = "sign"
    /\ pre.SignatureScript = <<>> /\ b.SignatureScript # <<>>
    /\ BlockHeader_writeTo(b, FALSE) # BlockHeader_writeTo(pre, FALSE)
    /\ HashForSig(b) = HashForSig(pre)

\* the bytes of the commitment that a setter may write: [0,32) for
\* SetTxRoot, [32,64) for SetStateRoot (positions counted from 1 here)
InSlot(i) ==
    IF op = "SetTxRoot" THEN i <= HashSize
    ELSE HashSize < i /\ i <= CommitmentSize

\* C3: a commitment setter never shortens Commitment and leaves every byte
\* that existed outside its slot as it was; the bytes SetStateRoot creates
\* between the old end of a short buffer and offset 32 are zero.
CommitmentGrowth ==
    /\ Len(b.Commitment) >= Len(calls.c0)
    /\ op \in {"SetTxRoot", "SetStateRoot"} =>
          /\ Len(b.Commitment) >= Len(pre.Commitment)
          /\ \A i \in 1 .. Len(pre.Commitment) :
                ~InSlot(i) => b.Commitment[i] = pre.Commitment[i]
    /\ op = "SetStateRoot" =>
          \A i \in Len(pre.Commitment) + 1 .. HashSize : b.Commitment[i] = 0

CommitmentGrowthWitness ==
    /\ op = "SetStateRoot"
    /\ Len(pre.Commitment) > 0 /\ Len(pre.Commitment) < HashSize
    /\ Len(b.Commitment) = CommitmentSize
    /\ b.Commitment[1] = pre.Commitment[1]
    /\ b.Commitment[1] # 0
    /\ b.Commitment[HashSize] = 0

\* C4: Scan of a proper prefix of a Full encoding returns the truncated-input
\* error (the reader's EOF), never success.
TruncationDetected ==
    /\ (op = "Block.Scan" /\ val.kind = "bytes"
            /\ IsProperPrefix(val.bytes, FullBlock)) => err = EOF
    /\ (op = "BlockHeader.Scan" /\ val.kind = "bytes"
            /\ IsProperPrefix(val.bytes, FullHeader)) => err = EOF

TruncationWitness ==
    /\ op = "Block.Scan" /\ val.kind = "bytes"
    /\ Len(src.blk.Transactions) = 2
    /\ val.bytes = Take(FullBlock, Len(FullBlock) - 1)
    /\ err = EOF

\* C5: when Scan ends with an error the receiver is as it was before the
\* call: none of the fields parsed before the error is kept.
NoPartialStructure == (Scanned /\ err # NoErr) => b = pre

\* C6: Scan of a value that is not a byte slice returns an error that is not
\* one of the decoding errors, decodes nothing and leaves the receiver,
\* transactions included, as it was.
InvalidStoredValue ==
    (Scanned /\ val.kind # "bytes") =>
        /\ err = ErrNotBytes
        /\ err \notin {NoErr, EOF, ErrMalformed}
        /\ b = pre

InvalidStoredValueWitness ==
    /\ op = "Block.Scan" /\ val.kind = "other"
    /\ pre.Version # 0 /\ Len(pre.Transactions) = 2
    /\ err = ErrNotBytes /\ b = pre

\* C7: the ForSigning encoding of a block is the ForSigning encoding of its
\* header alone, whatever the transactions; the Full encoding is the header's
\* Full encoding, the count, then each transaction in list order.
BlockForSigningOmitsTransactions ==
    /\ op = "Block.writeTo(forSigning)" =>
          /\ ret = BlockHeader_writeTo(b, TRUE)
          /\ \A txs \in TxLists :
                Block_writeTo([b EXCEPT !.Transactions = txs], TRUE) = ret
    /\ op = "Block.Value" =>
          /\ ret = BlockHeader_writeTo(b, FALSE)
                      \o WriteUvarint(Len(b.Transactions))
                      \o TxListBytes(b.Transactions)
          /\ val = BytesValue(ret)

BlockForSigningWitness ==
    /\ op = "Block.writeTo(forSigning)"
    /\ Len(b.Transactions) = 2
    /\ b.SignatureScript # <<>>
    /\ ret = BlockHeader_writeTo(b, TRUE)
    /\ Len(ret) < Len(Block_writeTo(b, FALSE))

\* C8: once SetTxRoot(D1) and SetStateRoot(D2) have both been called, in
\* either order, TxRoot() is the last D1, StateRoot() the last D2 and the
\* commitment is max(initial length, 64) bytes long.
CommitmentSetGet ==
    (calls.tx # <<>> /\ calls.st # <<>>) =>
        /\ TxRoot(b) = calls.tx
        /\ StateRoot(b) = calls.st
        /\ Len(b.Commitment) = Max(Len(calls.c0), CommitmentSize)

CommitmentSetGetWitness ==
    /\ calls.c0 = <<>>
    /\ op = "SetStateRoot" /\ pre.Commitment = calls.tx
    /\ calls.tx # ZeroHash /\ calls.st # ZeroHash /\ calls.tx # calls.st
    /\ TxRoot(b) = calls.tx /\ StateRoot(b) = calls.st
    /\ Len(b.Commitment) = CommitmentSize

\* C9: the ForSigning encoding of a header is the Full encoding of the same
\* header with an empty SignatureScript; a header whose SignatureScript is
\* empty has Hash() = HashForSig(), and computing either leaves the header
\* and the value the same.
ForSigningIsFullBlanked ==
    /\ op \in {"build", "sign", "BlockHeader.WriteForSigTo", "Hash", "HashForSig"} =>
          BlockHeader_writeTo(b, TRUE)
              = BlockHeader_writeTo([b EXCEPT !.SignatureScript = <<>>], FALSE)
    /\ op = "BlockHeader.WriteForSigTo" =>
          ret = BlockHeader_writeTo([b EXCEPT !.SignatureScript = <<>>], FALSE)
    /\ op = "Hash" => (b = pre /\ ret = Hash(b))
    /\ op = "HashForSig" => (b = pre /\ ret = HashForSig(b))
    /\ (op = "HashForSig" /\ b.SignatureScript = <<>>) => ret = Hash(b)
    /\ (op = "Hash" /\ b.SignatureScript = <<>>) => ret = HashForSig(b)

ForSigningWitness ==
    /\ op = "HashForSig"
    /\ BlockHeader(b) = BlockHeader(GenesisBlock)
    /\ ret = Hash(b)

\* the transaction payloads of src.blk that are complete in its first k bytes
CompletePayloads(k) ==
    Cardinality({i \in 1 .. Len(src.blk.Transactions) :
        Len(Block_writeTo([src.blk EXCEPT !.Transactions = Take(@, i)], FALSE)) <= k})

\* C10: Block.Scan appends no transaction after a read error: one decode
\* appends no more transactions than there are complete payloads in its input.
DecodeAbortsAtFirstError ==
    (op = "Block.Scan" /\ val.kind = "bytes" /\ IsPrefix(val.bytes, FullBlock)) =>
        Len(b.Transactions) - Len(pre.Transactions)
            <= CompletePayloads(Len(val.bytes))

\* C11 as stated: SetStateRoot(d) leaves the value of TxRoot() unchanged and
\* SetTxRoot(d) leaves the value of StateRoot() unchanged, for every commitment.
SettersKeepOtherRoot ==
    /\ op = "SetStateRoot" => TxRoot(b) = TxRoot(pre)
    /\ op = "SetTxRoot" => StateRoot(b) = StateRoot(pre)

\* C11 as amended: SetTxRoot(d) leaves StateRoot() unchanged for every
\* commitment; SetStateRoot(d) leaves TxRoot() unchanged when the commitment
\* is empty or at least 32 bytes long; on a commitment shorter than 32 bytes
\* TxRoot() was the zero digest and becomes the old bytes padded with zeros
\* to 32 bytes.
SettersKeepOtherRootAmended ==
    /\ op = "SetTxRoot" => StateRoot(b) = StateRoot(pre)
    /\ (op = "SetStateRoot"
            /\ (pre.Commitment = <<>> \/ Len(pre.Commitment) >= HashSize))
          => TxRoot(b) = TxRoot(pre)
    /\ (op = "SetStateRoot" /\ Len(pre.Commitment) < HashSize) =>
          /\ TxRoot(pre) = ZeroHash
          /\ TxRoot(b) = pre.Commitment \o Zeros(HashSize - Len(pre.Commitment))

SettersKeepOtherRootWitness ==
    /\ op = "SetStateRoot"
    /\ Len(pre.Commitment) > CommitmentSize
    /\ TxRoot(pre) # ZeroHash
    /\ StateRoot(b) # StateRoot(pre)
    /\ TxRoot(b) = TxRoot(pre)

\* C12: after Block.Scan succeeds, on a Block in any prior state, the Block
\* is the block its input encodes: the transactions are exactly the ones
\* decoded, so a second Scan of the same bytes changes nothing.
DecodeReplaces ==
    (op = "Block.Scan" /\ err = NoErr /\ val.kind = "bytes") =>
        /\ val.bytes = FullBlock
        /\ b = src.blk
        /\ Len(b.Transactions) = Len(src.blk.Transactions)

\* C13: Hash() of a Block is the digest of the Full encoding of its header
\* alone: blocks with the same header and other transaction lists (other
\* transactions, or the same in another order) have the same Hash(), while
\* their Full block encodings differ.
BlockHashIsHeaderHash ==
    op = "Hash" =>
        /\ ret = Hash256(BlockHeader_writeTo(BlockHeader(b), FALSE))
        /\ \A txs \in TxLists :
              /\ Hash([b EXCEPT !.Transactions = txs]) = ret
              /\ txs # b.Transactions =>
                    Block_writeTo([b EXCEPT !.Transactions = txs], FALSE)
                        # Block_writeTo(b, FALSE)

BlockHashWitness ==
    /\ op = "Hash"
    /\ Len(b.Transactions) = 2
    /\ b.Transactions[1] # b.Transactions[2]
    /\ b.SignatureScript # <<>>
    /\ ret = Hash([b EXCEPT !.Transactions = <<@[2], @[1]>>])
    /\ ret = Hash([b EXCEPT !.Transactions = <<>>])
    /\ Block_writeTo([b EXCEPT !.Transactions = <<@[2], @[1]>>], FALSE)
          # Block_writeTo(b, FALSE)

====
